---- MODULE Spec2Model ----
(***************************************************************************)
(* The inventory lifecycle of the food tracker: the App component's state  *)
(* (ingredients, consumptions, dailyStatuses), the values its handlers     *)
(* close over (the rendered `ingredients` and the memoised todaysStatus),  *)
(* and the handlers handleAddIngredient / AddEditModal.submit,             *)
(* handleConsume and handleDailyStatusUpdate; the date arithmetic of       *)
(* addTime and getRemainingDays; the memoised summary counters and the     *)
(* at-risk list of the home view; the add form (AddEditModal) with its     *)
(* keyword classifier and the label extraction of handleOCR.               *)
(*                                                                         *)
(* Dates are day numbers (the YYYY-MM-DD prefix of toISOString()), day 0   *)
(* being 2024-01-01; instants are hours since 2024-01-01T00:00Z. An id     *)
(* from crypto.randomUUID() is the record's ordinal in its collection:     *)
(* no collection ever shrinks, so every id is fresh.                       *)
(*                                                                         *)
(* There is one specification for each part of the program: Spec and       *)
(* SpecQueued for the handlers of the inventory, SpecTime for addTime,     *)
(* SpecHome for the counters and the risk list of the home view, SpecForm  *)
(* for the add form. Each follows the rendered values its part reads and   *)
(* leaves the variables of the other parts at their initial values.        *)
(***************************************************************************)
EXTENDS Integers, Sequences, FiniteSets, TLC

VARIABLES
    ingredients,      \* useState<Ingredient[]>: the state after every queued updater
    consumptions,     \* useState<ConsumptionRecord[]>
    dailyStatuses,    \* useState<DailyStatus[]>
    viewIngredients,  \* the `ingredients` value of the last render (what handlers read)
    todaysStatus,     \* the useMemo value of the last render
    depsChanged,      \* setDailyStatuses was called since the last render
    queued,           \* number of calls whose updates are not rendered yet
    today,            \* the clock: new Date().toISOString().split('T')[0]
    lastOp,           \* the last call that did something (history variable)
    timeZone,         \* the browser's offset from UTC, in hours
    timeCase,         \* the arguments and the result of one addTime call
    stats,            \* the useMemo value `stats` of the last render
    riskList,         \* ids of the at-risk list drawn by the last render
    isAddModalOpen,   \* useState(false): the add form is shown
    isProcessing,     \* useState(false): an extraction is running
    draft,            \* the state of the mounted AddEditModal, or Null
    ocr,              \* the handleOCR call in flight, or Null
    remounts          \* an App render replaces the mounted AddEditModal

storeVars == <<ingredients, consumptions, dailyStatuses, viewIngredients,
               todaysStatus, depsChanged, queued>>

timeVars == <<timeZone, timeCase>>

statsVars == <<stats, riskList>>

draftVars == <<isAddModalOpen, isProcessing, draft, ocr, remounts>>

vars == <<storeVars, today, lastOp, timeVars, statsVars, draftVars>>

----------------------------------------------------------------------------
(* Bounds of the model *)

MaxRecords == 3            \* ingredients plus consumption records kept
MaxDaily == 2              \* length of the daily status collection
MaxDay == 1                \* the clock runs over days 0..MaxDay
MaxQueued == 2             \* calls issued before the view re-renders
MaxHomeDay == 2            \* the clock of the home view runs over days 0..MaxHomeDay
MaxStored == 1             \* ingredients created through the add form

----------------------------------------------------------------------------
(* Types *)

IngredientStatus == {"active", "consumed", "discarded"}

ConsumptionReason == {"cooking", "reminder", "discard", "other"}

DailyActivityStatus == {"cooked", "not_at_home", "skipped"}

\* `undefined`: the result of Array.prototype.find without a match
Null == [none |-> TRUE]

\* Inputs of the handlers
NameInputs == {"", "milk"}
\* (shelfLifeValue, initialQuantity) pairs typed into the add form: the form's
\* default shelf life with every quantity, and a non-positive shelf life
FormInputs == ({7} \X {-1, 0, 1, 2}) \cup ({0} \X {1})
\* the two buttons of the daily prompt
StatusInputs == {"cooked", "not_at_home"}
\* quantities passed to handleConsume: part, all, and more than is there
ConsumeQtyInputs == {1, 2, 3}
ReasonInputs == {"cooking"}
IdInputs == 1 .. MaxRecords

----------------------------------------------------------------------------
(* Pure helpers *)

\* Array.prototype.find(i => i.id === ingredientId)
FindIngredient(list, ingredientId) ==
    IF \E k \in 1..Len(list) : list[k].id = ingredientId
    THEN list[CHOOSE k \in 1..Len(list) :
                /\ list[k].id = ingredientId
                /\ \A j \in 1..(k-1) : list[j].id # ingredientId]
    ELSE Null

\* dailyStatuses.find(s => s.date === todayStr)
FindStatus(list, todayStr) ==
    IF \E k \in 1..Len(list) : list[k].date = todayStr
    THEN list[CHOOSE k \in 1..Len(list) :
                /\ list[k].date = todayStr
                /\ \A j \in 1..(k-1) : list[j].date # todayStr]
    ELSE Null

\* Math.max(0, ingredient.currentQuantity - quantity)
NewQuantity(ingredient, quantity) ==
    IF ingredient.currentQuantity - quantity > 0
    THEN ingredient.currentQuantity - quantity
    ELSE 0

\* newQuantity <= 0 ? CONSUMED : ACTIVE
NewStatus(newQuantity) ==
    IF newQuantity <= 0 THEN "consumed" ELSE "active"

\* prev.map(i => i.id === ingredientId ? {...i, currentQuantity, status} : i)
UpdateIngredient(prev, ingredientId, newQuantity, newStatus) ==
    [k \in 1..Len(prev) |->
        IF prev[k].id = ingredientId
        THEN [prev[k] EXCEPT !.currentQuantity = newQuantity, !.status = newStatus]
        ELSE prev[k]]

\* the ConsumptionRecord built by handleConsume
ConsumptionEntry(id, ingredientId, quantity, reason) ==
    [id |-> id, ingredientId |-> ingredientId,
     consumedQuantity |-> quantity, reason |-> reason]

MutLedgerOverwrite(prev, record) ==
    <<record>>

\* setConsumptions(prev => [record, ...prev])
AddConsumption(prev, record) ==
    <<record>> \o prev

MutCookedAlways(prev, status, id, todayStr) ==
    Append(prev, [id |-> id, date |-> todayStr, status |-> "cooked"])

\* if (!todaysStatus) setDailyStatuses(prev => [...prev, {.., status: COOKED}])
CookedOnConsume(prev, status, id, todayStr) ==
    IF status = Null
    THEN Append(prev, [id |-> id, date |-> todayStr, status |-> "cooked"])
    ELSE prev

\* handleDailyStatusUpdate's two branches
UpsertStatus(prev, memo, id, todayStr, status) ==
    IF memo # Null
    THEN [k \in 1..Len(prev) |->
            IF prev[k].date = todayStr
            THEN [prev[k] EXCEPT !.status = status]
            ELSE prev[k]]
    ELSE Append(prev, [id |-> id, date |-> todayStr, status |-> status])

\* the Ingredient built by submit and handleAddIngredient
NewIngredient(id, name, lifeVal, qty) ==
    [id |-> id, name |-> name, shelfLifeValue |-> lifeVal,
     initialQuantity |-> qty, currentQuantity |-> qty, status |-> "active"]

----------------------------------------------------------------------------
(* Dates: the Date arithmetic behind addTime and getRemainingDays *)

ShelfLifeUnit == {"day", "month", "year"}

\* offsets of the browser's zone from UTC, in hours (no daylight saving)
TimeZones == {-8, 0, 8}

IsLeapYear(y) == (y % 4 = 0 /\ y % 100 # 0) \/ y % 400 = 0

DaysInYear(y) == IF IsLeapYear(y) THEN 366 ELSE 365

\* months are numbered from 0, as Date.getMonth() numbers them
DaysInMonth(y, m) ==
    IF m = 1 THEN (IF IsLeapYear(y) THEN 29 ELSE 28)
    ELSE IF m \in {3, 5, 8, 10} THEN 30 ELSE 31

RECURSIVE DaysBeforeYear(_)
\* days from 2024-01-01 to the first day of year y
DaysBeforeYear(y) ==
    IF y = 2024 THEN 0
    ELSE IF y > 2024 THEN DaysBeforeYear(y - 1) + DaysInYear(y - 1)
    ELSE DaysBeforeYear(y + 1) - DaysInYear(y)

RECURSIVE DaysBeforeMonth(_, _)
DaysBeforeMonth(y, m) ==
    IF m = 0 THEN 0 ELSE DaysBeforeMonth(y, m - 1) + DaysInMonth(y, m - 1)

\* the day number Date gives to (year, month, date): a month past December
\* carries into the year, a date past the month's end carries into the
\* months that follow
MakeDay(y, m, d) ==
    LET ym == y + (m \div 12)
        mn == m % 12
    IN  DaysBeforeYear(ym) + DaysBeforeMonth(ym, mn) + d - 1

RECURSIVE CivilFrom(_, _, _)
CivilFrom(n, y, m) ==
    IF n < DaysInMonth(y, m)
    THEN [year |-> y, month |-> m, date |-> n + 1]
    ELSE CivilFrom(n - DaysInMonth(y, m), IF m = 11 THEN y + 1 ELSE y, (m + 1) % 12)

\* getFullYear(), getMonth(), getDate() of day number n >= -365
Civil(n) == CivilFrom(n + 365, 2023, 0)

\* new Date(date) reads YYYY-MM-DD as midnight UTC; getDate/setDate,
\* getMonth/setMonth and getFullYear/setFullYear work on the local calendar
\* fields of that instant (zone offset tz), the time of day staying;
\* toISOString() is the resulting instant
addTime(date, value, unit, tz) ==
    LET local == date * 24 + tz
        c == Civil(local \div 24)
        localHour == local % 24
        day == CASE unit = "day" -> MakeDay(c.year, c.month, c.date + value)
                 [] unit = "month" -> MakeDay(c.year, c.month + value, c.date)
                 [] unit = "year" -> MakeDay(c.year + value, c.month, c.date)
    IN  day * 24 + localHour - tz

\* Math.ceil(a / b) for b > 0
Ceil(a, b) == -((-a) \div b)

\* Math.ceil((new Date(expiry).getTime() - new Date().getTime()) / one day)
getRemainingDays(expiry, now) == Ceil(expiry - now, 24)

\* new Date(): the instant at which the day `todayStr` begins
Now(todayStr) == todayStr * 24

----------------------------------------------------------------------------
(* The summary counters and the at-risk list of the home view *)

\* the body of the `stats` memo, without the per-category counts
ComputeStats(ings, now) ==
    LET active == SelectSeq(ings, LAMBDA i : i.status = "active")
        expiringSoonCount ==
            Len(SelectSeq(active, LAMBDA i :
                    LET remaining == getRemainingDays(i.expiryDate, now)
                    IN  remaining >= 0 /\ remaining <= 3))
        expiredCount ==
            Len(SelectSeq(active, LAMBDA i :
                    getRemainingDays(i.expiryDate, now) < 0))
    IN  [total |-> Len(active), expiringSoon |-> expiringSoonCount,
         expired |-> expiredCount]

\* the items HomeView draws under the risk heading: the block is drawn when
\* one of the two counters is positive, and its filter reads the clock anew
RiskList(ings, st, now) ==
    IF st.expiringSoon > 0 \/ st.expired > 0
    THEN LET shown == SelectSeq(ings, LAMBDA i :
                          /\ i.status = "active"
                          /\ getRemainingDays(i.expiryDate, now) <= 3)
         IN  [k \in 1..Len(shown) |-> shown[k].id]
    ELSE <<>>

----------------------------------------------------------------------------
(* The add form *)

\* CATEGORIES.map(c => c.id), in the order of the table
CATEGORIES == <<"vegetables", "fruits", "dairy", "meat", "fish", "others">>

Category == {CATEGORIES[k] : k \in 1..Len(CATEGORIES)}

\* A name is the sequence of its characters; each character of the keyword
\* table is written as a symbol of its own (its reading, with a gloss where
\* two characters read alike).
CATEGORY_KEYWORDS ==
    [c \in Category |->
        CASE c = "vegetables" ->
               {<<"cai">>, <<"qie">>, <<"jiao_pepper">>, <<"shu">>, <<"gua">>,
                <<"dou">>, <<"gu_mushroom">>, <<"sun">>, <<"luo_radish", "bo">>,
                <<"cong">>, <<"suan">>, <<"jiang">>, <<"qin">>, <<"lan">>}
          [] c = "fruits" ->
               {<<"guo">>, <<"mei">>, <<"tao">>, <<"gan_citrus">>, <<"ju">>,
                <<"cheng">>, <<"jiao_banana">>, <<"li">>, <<"zao">>, <<"gua">>,
                <<"xi", "gua">>, <<"ha", "mi", "gua">>, <<"liu", "lian">>,
                <<"mang", "guo">>}
          [] c = "dairy" ->
               {<<"nai">>, <<"lao">>, <<"ru">>, <<"dan">>, <<"nai", "you_oil">>,
                <<"zhi", "shi">>, <<"huang", "you_oil">>}
          [] c = "meat" ->
               {<<"rou">>, <<"chang">>, <<"chi">>, <<"tui">>, <<"fu">>,
                <<"gan_liver">>, <<"xin">>, <<"pei", "gen">>, <<"huo", "tui">>,
                <<"pai", "gu_bone">>}
          [] c = "fish" ->
               {<<"yu">>, <<"xia">>, <<"xie">>, <<"hao">>, <<"xian">>,
                <<"you_squid">>, <<"bao">>, <<"luo_snail">>, <<"xue">>, <<"man">>}
          [] c = "others" -> {}]

\* String.prototype.includes
Includes(name, k) ==
    \E i \in 0..(Len(name) - Len(k)) : SubSeq(name, i + 1, i + Len(k)) = k

\* the first entry of Object.entries(CATEGORY_KEYWORDS) with a keyword that the
\* name includes, or "" when there is none
FirstMatch(name) ==
    IF \E j \in 1..Len(CATEGORIES) :
           \E k \in CATEGORY_KEYWORDS[CATEGORIES[j]] : Includes(name, k)
    THEN CATEGORIES[CHOOSE j \in 1..Len(CATEGORIES) :
            /\ \E k \in CATEGORY_KEYWORDS[CATEGORIES[j]] : Includes(name, k)
            /\ \A h \in 1..(j - 1) :
                  \A k \in CATEGORY_KEYWORDS[CATEGORIES[h]] : ~Includes(name, k)]
    ELSE ""

MutIgnoreLatch(name, category, manual) ==
    LET catId == FirstMatch(name)
    IN  IF Len(name) = 0 \/ catId = "" THEN category ELSE catId

\* the effect on [name]: it returns when the name is empty or the category was
\* picked by hand, and sets the category only when a keyword matches
AutoClassify(name, category, manual) ==
    IF Len(name) = 0 \/ manual
    THEN category
    ELSE LET catId == FirstMatch(name)
         IN  IF catId = "" THEN category ELSE catId

\* names typed into the form: none, milk, water
DraftNames == {<<>>, <<"niu", "nai">>, <<"shui">>}
\* the choice made in the category select
CategoryInputs == {"fruits"}

\* results of extractFoodInfoFromImage: a label (beef, meat), an answer whose
\* strings are empty, and a category outside the Category type. A field the
\* answer lacks is "", 0 or <<>>: the tests of handleOCR take a missing value
\* and an empty one alike. No answer drawn here carries an optional field.
InfoInputs ==
    {[name |-> <<"niu", "rou">>, category |-> "meat", productionDate |-> <<>>,
      shelfLifeValue |-> 0, shelfLifeUnit |-> ""],
     [name |-> <<>>, category |-> "", productionDate |-> <<>>,
      shelfLifeValue |-> 0, shelfLifeUnit |-> ""],
     [name |-> <<"niu", "rou">>, category |-> "snacks", productionDate |-> <<>>,
      shelfLifeValue |-> 0, shelfLifeUnit |-> ""]}

\* the useState initial values of AddEditModal and its ref
FreshDraft(todayStr) ==
    [name |-> <<>>, category |-> "others", prodDate |-> todayStr, lifeVal |-> 7,
     lifeUnit |-> "day", qty |-> 1, unit |-> "pcs",
     hasManuallyChangedCategory |-> FALSE]

\* the Ingredient built by submit and handleAddIngredient, with every field
\* of the form
IngredientOf(id, form, expiryDate) ==
    [id |-> id, name |-> form.name, category |-> form.category,
     productionDate |-> form.prodDate, shelfLifeValue |-> form.lifeVal,
     shelfLifeUnit |-> form.lifeUnit, expiryDate |-> expiryDate,
     initialQuantity |-> form.qty, currentQuantity |-> form.qty,
     quantityUnit |-> form.unit, status |-> "active"]

MutAlwaysMounted(o) == TRUE

\* the setters of a handleOCR call reach the modal instance that made the call
\* as long as that instance is mounted
Mounted(o) == o.alive

\* the state the setters of handleOCR leave in the draft d: name and category
\* fall back to the values its closure holds (o), the other fields are set
\* when the answer carries them; then the effect on [name] runs
MergeInfo(d, o, info) ==
    LET newName == IF Len(info.name) > 0 THEN info.name ELSE o.name
        newCategory == IF info.category # "" THEN info.category ELSE o.category
    IN  [d EXCEPT
           !.name = newName,
           !.category = IF newName # d.name
                        THEN AutoClassify(newName, newCategory,
                                          d.hasManuallyChangedCategory)
                        ELSE newCategory,
           !.prodDate = IF info.productionDate # <<>>
                        THEN info.productionDate[1] ELSE @,
           !.lifeVal = IF info.shelfLifeValue # 0
                       THEN info.shelfLifeValue ELSE @,
           !.lifeUnit = IF info.shelfLifeUnit # ""
                        THEN info.shelfLifeUnit ELSE @]

----------------------------------------------------------------------------
(* State *)

InitStore ==
    /\ ingredients = <<>>
    /\ consumptions = <<>>
    /\ dailyStatuses = <<>>
    /\ viewIngredients = <<>>
    /\ todaysStatus = Null
    /\ depsChanged = FALSE
    /\ queued = 0
    /\ today = 0
    /\ lastOp = "none"

\* no addTime call is followed; the zone is UTC
InitClock ==
    /\ timeZone = 0
    /\ timeCase = Null

\* the first render of the home view
InitStats ==
    /\ stats = ComputeStats(<<>>, Now(0))
    /\ riskList = <<>>

\* the add form is closed
InitDraft ==
    /\ isAddModalOpen = FALSE
    /\ isProcessing = FALSE
    /\ draft = Null
    /\ ocr = Null
    /\ remounts = TRUE

Init == InitStore /\ InitClock /\ InitStats /\ InitDraft

\* The state updates of one handler. With flush, React re-renders right after
\* the handler: the handlers of the next call close over the new state, and
\* the memo is recomputed when dailyStatuses was set. Without flush the
\* updates are queued and the rendered values stay.
SetState(ings, cons, daily, touched, flush) ==
    /\ ingredients' = ings
    /\ consumptions' = cons
    /\ dailyStatuses' = daily
    /\ IF flush
       THEN /\ viewIngredients' = ings
            /\ todaysStatus' = IF touched \/ depsChanged
                               THEN FindStatus(daily, today)
                               ELSE todaysStatus
            /\ depsChanged' = FALSE
            /\ queued' = 0
       ELSE /\ queued < MaxQueued
            /\ UNCHANGED <<viewIngredients, todaysStatus>>
            /\ depsChanged' = (depsChanged \/ touched)
            /\ queued' = queued + 1

----------------------------------------------------------------------------
(* Handlers *)

\* AddEditModal.submit, then handleAddIngredient
submit(name, lifeVal, qty, flush) ==
    IF name = ""
    THEN UNCHANGED vars
    ELSE /\ Len(ingredients) + Len(consumptions) < MaxRecords
         /\ lastOp' = "create"
         /\ UNCHANGED today
         /\ SetState(<<NewIngredient(Len(ingredients) + 1, name, lifeVal, qty)>>
                         \o ingredients,
                     consumptions, dailyStatuses, FALSE, flush)

handleConsume(ingredientId, quantity, reason, flush) ==
    LET ingredient == FindIngredient(viewIngredients, ingredientId) IN
    IF ingredient = Null
    THEN UNCHANGED vars
    ELSE LET newQuantity == NewQuantity(ingredient, quantity)
             newStatus == NewStatus(newQuantity)
             record == ConsumptionEntry(Len(consumptions) + 1, ingredientId,
                                        quantity, reason)
         IN  /\ Len(ingredients) + Len(consumptions) < MaxRecords
             /\ todaysStatus = Null => Len(dailyStatuses) < MaxDaily
             /\ lastOp' = "consume"
             /\ UNCHANGED today
             /\ SetState(UpdateIngredient(ingredients, ingredientId,
                                          newQuantity, newStatus),
                         AddConsumption(consumptions, record),
                         CookedOnConsume(dailyStatuses, todaysStatus,
                                         Len(dailyStatuses) + 1, today),
                         todaysStatus = Null, flush)

handleDailyStatusUpdate(status, flush) ==
    /\ lastOp' = "setStatus"
    /\ UNCHANGED today
    /\ todaysStatus = Null => Len(dailyStatuses) < MaxDaily
    /\ SetState(ingredients, consumptions,
                UpsertStatus(dailyStatuses, todaysStatus, Len(dailyStatuses) + 1, today,
                             status),
                TRUE, flush)

----------------------------------------------------------------------------
(* Specification: every call is followed by the re-render *)

Create ==
    \E name \in NameInputs, f \in FormInputs :
        /\ submit(name, f[1], f[2], TRUE)
        /\ UNCHANGED <<timeVars, statsVars, draftVars>>

Consume ==
    \E id \in IdInputs, q \in ConsumeQtyInputs, r \in ReasonInputs :
        /\ handleConsume(id, q, r, TRUE)
        /\ UNCHANGED <<timeVars, statsVars, draftVars>>

SetStatus ==
    \E s \in StatusInputs :
        /\ handleDailyStatusUpdate(s, TRUE)
        /\ UNCHANGED <<timeVars, statsVars, draftVars>>

\* the clock passes midnight; nothing is rendered
Tick ==
    /\ today < MaxDay
    /\ today' = today + 1
    /\ lastOp' = "tick"
    /\ UNCHANGED <<storeVars, timeVars, statsVars, draftVars>>

Next == Create \/ Consume \/ SetStatus \/ Tick

Spec == Init /\ [][Next]_vars

----------------------------------------------------------------------------
(* Specification: calls may be issued before the view has re-rendered *)

CreateQueued ==
    \E name \in NameInputs, f \in FormInputs :
        /\ submit(name, f[1], f[2], FALSE)
        /\ UNCHANGED <<timeVars, statsVars, draftVars>>

ConsumeQueued ==
    \E id \in IdInputs, q \in ConsumeQtyInputs, r \in ReasonInputs :
        /\ handleConsume(id, q, r, FALSE)
        /\ UNCHANGED <<timeVars, statsVars, draftVars>>

SetStatusQueued ==
    \E s \in StatusInputs :
        /\ handleDailyStatusUpdate(s, FALSE)
        /\ UNCHANGED <<timeVars, statsVars, draftVars>>

Render ==
    /\ queued > 0
    /\ lastOp' = "render"
    /\ UNCHANGED today
    /\ SetState(ingredients, consumptions, dailyStatuses, FALSE, TRUE)
    /\ UNCHANGED <<timeVars, statsVars, draftVars>>

NextQueued == CreateQueued \/ ConsumeQueued \/ SetStatusQueued \/ Render \/ Tick

SpecQueued == Init /\ [][NextQueued]_vars

----------------------------------------------------------------------------
(* Specification: addTime on its own *)

\* production dates: 2024-01-15, 2024-01-31, 2024-02-29, 2024-03-01, 2024-06-01
DateInputs ==
    {MakeDay(2024, 0, 15), MakeDay(2024, 0, 31), MakeDay(2024, 1, 29),
     MakeDay(2024, 2, 1), MakeDay(2024, 5, 1)}

ShelfLifeInputs == {1, 7, 12}

InitTime ==
    /\ InitStore
    /\ InitStats
    /\ InitDraft
    /\ timeZone \in TimeZones
    /\ timeCase \in [date : DateInputs, value : ShelfLifeInputs,
                     unit : ShelfLifeUnit, expiryDate : {<<>>}]

\* const expiryDate = addTime(prodDate, lifeVal, lifeUnit)
CallAddTime ==
    /\ timeCase.expiryDate = <<>>
    /\ timeCase' = [timeCase EXCEPT !.expiryDate =
                        <<addTime(timeCase.date, timeCase.value, timeCase.unit,
                                  timeZone)>>]
    /\ lastOp' = "addTime"
    /\ UNCHANGED <<storeVars, today, timeZone, statsVars, draftVars>>

NextTime == CallAddTime

SpecTime == InitTime /\ [][NextTime]_vars

----------------------------------------------------------------------------
(* Specification: the home view over a dated inventory *)

\* the fields of the form that submit reads
FormOf(d) ==
    [name |-> d.name, category |-> d.category, prodDate |-> d.prodDate,
     lifeVal |-> d.lifeVal, lifeUnit |-> d.lifeUnit, qty |-> d.qty,
     unit |-> d.unit]

\* AddEditModal.submit, then handleAddIngredient, with every field of the form
submitForm(form, flush) ==
    IF Len(form.name) = 0
    THEN UNCHANGED vars
    ELSE /\ Len(ingredients) + Len(consumptions) < MaxRecords
         /\ lastOp' = "create"
         /\ UNCHANGED today
         /\ SetState(<<IngredientOf(Len(ingredients) + 1, form,
                                    addTime(form.prodDate, form.lifeVal,
                                            form.lifeUnit, timeZone))>>
                         \o ingredients,
                     consumptions, dailyStatuses, FALSE, flush)

\* forms submitted on the current day: milk that keeps one day or four
StatsForms ==
    {[FormOf(FreshDraft(today)) EXCEPT !.name = <<"niu", "nai">>,
                                       !.category = "dairy", !.lifeVal = v] :
        v \in {1, 4}}

\* what an App render leaves on the home view: the memo is computed again
\* when setIngredients was called, the risk list on every render
RenderHome(ingredientsSet) ==
    /\ stats' = IF ingredientsSet
                THEN ComputeStats(ingredients', Now(today'))
                ELSE stats
    /\ riskList' = RiskList(ingredients', stats', Now(today'))

InitHome ==
    /\ InitStore
    /\ InitStats
    /\ InitDraft
    /\ timeZone \in TimeZones
    /\ timeCase = Null

CreateDated ==
    \E form \in StatsForms :
        /\ submitForm(form, TRUE)
        /\ RenderHome(TRUE)
        /\ UNCHANGED <<timeVars, draftVars>>

ConsumeDated ==
    \E id \in IdInputs, r \in ReasonInputs :
        /\ FindIngredient(viewIngredients, id) # Null
        /\ handleConsume(id, 1, r, TRUE)
        /\ RenderHome(TRUE)
        /\ UNCHANGED <<timeVars, draftVars>>

\* a button of the daily prompt: App renders, `ingredients` is the same array
StatusDated ==
    \E s \in StatusInputs :
        /\ handleDailyStatusUpdate(s, TRUE)
        /\ RenderHome(FALSE)
        /\ UNCHANGED <<timeVars, draftVars>>

\* a day passes; nothing is rendered
TickHome ==
    /\ today < MaxHomeDay
    /\ today' = today + 1
    /\ lastOp' = "tick"
    /\ UNCHANGED <<storeVars, timeVars, statsVars, draftVars>>

NextHome == CreateDated \/ ConsumeDated \/ StatusDated \/ TickHome

SpecHome == InitHome /\ [][NextHome]_vars

----------------------------------------------------------------------------
(* Specification: the add form and the label extraction *)

\* AddEditModal is declared in the body of App, so every App render hands
\* React a component type it has not seen: React unmounts the mounted modal
\* and mounts a fresh one (remounts). With remounts = FALSE the instance
\* lives through App renders, as it does for a component declared outside
\* App. The form is checked under both.
InitForm ==
    /\ InitStore
    /\ InitClock
    /\ InitStats
    /\ isAddModalOpen = FALSE
    /\ isProcessing = FALSE
    /\ draft = Null
    /\ ocr = Null
    /\ remounts \in BOOLEAN

\* the modal state an App render leaves: none when the modal is closed, the
\* initial one when the modal is mounted by this render, else the state d
AppRender(open, d) ==
    IF ~open THEN Null
    ELSE IF remounts \/ d = Null THEN FreshDraft(today) ELSE d

\* the instance that called handleOCR is unmounted
Unmount(o) == IF o = Null THEN Null ELSE [o EXCEPT !.alive = FALSE]

\* the + buttons: setIsAddModalOpen(true)
OpenModal ==
    /\ ~isAddModalOpen
    /\ isAddModalOpen' = TRUE
    /\ draft' = AppRender(TRUE, Null)
    /\ lastOp' = "open"
    /\ UNCHANGED <<storeVars, today, timeVars, statsVars, isProcessing, ocr,
                   remounts>>

\* the X button: setIsAddModalOpen(false)
CloseModal ==
    /\ isAddModalOpen
    /\ isAddModalOpen' = FALSE
    /\ draft' = Null
    /\ ocr' = Unmount(ocr)
    /\ lastOp' = "close"
    /\ UNCHANGED <<storeVars, today, timeVars, statsVars, isProcessing,
                   remounts>>

\* the name input: setName(n), then the effect on [name]
onNameChange(n) ==
    /\ isAddModalOpen
    /\ n # draft.name
    /\ draft' = [draft EXCEPT
                   !.name = n,
                   !.category = AutoClassify(n, @, draft.hasManuallyChangedCategory)]
    /\ lastOp' = "name"
    /\ UNCHANGED <<storeVars, today, timeVars, statsVars, isAddModalOpen,
                   isProcessing, ocr, remounts>>

\* the category select
onCategoryChange(c) ==
    /\ isAddModalOpen
    /\ draft' = [draft EXCEPT !.category = c,
                              !.hasManuallyChangedCategory = TRUE]
    /\ lastOp' = "category"
    /\ UNCHANGED <<storeVars, today, timeVars, statsVars, isAddModalOpen,
                   isProcessing, ocr, remounts>>

\* handleOCR up to reader.readAsDataURL(file): the callback keeps the name and
\* the category of the render that made it; setIsProcessing(true) renders App
handleOCR ==
    /\ isAddModalOpen
    /\ ~isProcessing
    /\ isProcessing' = TRUE
    /\ ocr' = [name |-> draft.name, category |-> draft.category,
               alive |-> ~remounts]
    /\ draft' = AppRender(TRUE, draft)
    /\ lastOp' = "ocr"
    /\ UNCHANGED <<storeVars, today, timeVars, statsVars, isAddModalOpen,
                   remounts>>

\* reader.onloadend with an answer: the setters, then setIsProcessing(false)
onInfo(info) ==
    /\ ocr # Null
    /\ isProcessing' = FALSE
    /\ ocr' = Null
    /\ draft' = AppRender(isAddModalOpen,
                          IF isAddModalOpen /\ Mounted(ocr)
                          THEN MergeInfo(draft, ocr, info)
                          ELSE draft)
    /\ lastOp' = IF ocr.alive THEN "merge" ELSE "late"
    /\ UNCHANGED <<storeVars, today, timeVars, statsVars, isAddModalOpen,
                   remounts>>

\* reader.onloadend when extractFoodInfoFromImage returns null: no text in the
\* response, or an error caught by its try block
onNoInfo ==
    /\ ocr # Null
    /\ isProcessing' = FALSE
    /\ ocr' = Null
    /\ draft' = AppRender(isAddModalOpen, draft)
    /\ lastOp' = "noInfo"
    /\ UNCHANGED <<storeVars, today, timeVars, statsVars, isAddModalOpen,
                   remounts>>

\* reader.onloadend when new GoogleGenAI(..) throws: the statement stands
\* before the try block, the awaited promise rejects and the callback ends
\* at the await
onThrow ==
    /\ ocr # Null
    /\ ocr' = Null
    /\ lastOp' = "throw"
    /\ UNCHANGED <<storeVars, today, timeVars, statsVars, isAddModalOpen,
                   isProcessing, draft, remounts>>

\* the submit button: handleAddIngredient closes the modal
submitDraft ==
    /\ isAddModalOpen
    /\ Len(ingredients) < MaxStored
    /\ submitForm(FormOf(draft), TRUE)
    /\ Len(draft.name) > 0 =>
          /\ isAddModalOpen' = FALSE
          /\ draft' = Null
          /\ ocr' = Unmount(ocr)
          /\ UNCHANGED <<timeVars, statsVars, isProcessing, remounts>>

TypeName == \E n \in DraftNames : onNameChange(n)

SelectCategory == \E c \in CategoryInputs : onCategoryChange(c)

InfoArrives == \E info \in InfoInputs : onInfo(info)

NextForm ==
    \/ OpenModal \/ CloseModal \/ TypeName \/ SelectCategory \/ handleOCR
    \/ InfoArrives \/ onNoInfo \/ onThrow \/ submitDraft

SpecForm == InitForm /\ [][NextForm]_vars

----------------------------------------------------------------------------
(* Vocabulary of the properties *)

Min(a, b) == IF a <= b THEN a ELSE b

\* the records of a daily status collection that carry the date d
OnDate(list, d) == SelectSeq(list, LAMBDA s : s.date = d)

\* every record of the old ledger is in the new one, unchanged, at the end
LedgerKept ==
    /\ Len(consumptions') >= Len(consumptions)
    /\ SubSeq(consumptions', Len(consumptions') - Len(consumptions) + 1,
              Len(consumptions')) = consumptions

RECURSIVE SumConsumed(_, _)
\* the sum of consumedQuantity over the records of `list` that reference id
SumConsumed(list, id) ==
    IF list = <<>> THEN 0
    ELSE (IF Head(list).ingredientId = id THEN Head(list).consumedQuantity ELSE 0)
         + SumConsumed(Tail(list), id)

\* classify(name): the first category of the table with a keyword in the
\* name, and others when there is none
Classify(name) == IF FirstMatch(name) = "" THEN "others" ELSE FirstMatch(name)

\* the shape of the three collections
TypeOK ==
    /\ \A k \in 1..Len(ingredients) :
          /\ ingredients[k].status \in IngredientStatus
          /\ ingredients[k].currentQuantity \in Int
          /\ ingredients[k].id = Len(ingredients) - k + 1
    /\ \A k \in 1..Len(consumptions) :
          /\ consumptions[k].reason \in ConsumptionReason
          /\ consumptions[k].id = Len(consumptions) - k + 1
    /\ \A k \in 1..Len(dailyStatuses) :
          /\ dailyStatuses[k].status \in DailyActivityStatus
          /\ dailyStatuses[k].date \in 0..today
          /\ dailyStatuses[k].id = k
    /\ todaysStatus # Null => todaysStatus.date \in 0..today
    /\ queued \in 0..MaxQueued

----------------------------------------------------------------------------
(* Properties *)

\* C1: a consume call with quantity q > 0 on an active ingredient whose
\* currentQuantity is c > 0 appends one ConsumptionRecord, and that record's
\* consumedQuantity is min(q, c).
C1_RecordIsClamped ==
    [][\A id \in IdInputs, q \in ConsumeQtyInputs, r \in ReasonInputs :
        LET ing == FindIngredient(ingredients, id) IN
        (/\ handleConsume(id, q, r, TRUE)
         /\ q > 0
         /\ ing # Null /\ ing.status = "active" /\ ing.currentQuantity > 0)
        => /\ Len(consumptions') = Len(consumptions) + 1
           /\ Head(consumptions').consumedQuantity = Min(q, ing.currentQuantity)
      ]_vars

\* C2: a consume call that names an ingredient whose status is consumed
\* changes nothing: the ingredients, the ledger and the daily statuses are
\* the same after the call as before it.
C2_ConsumedIsNotFound ==
    [][\A id \in IdInputs, q \in ConsumeQtyInputs, r \in ReasonInputs :
        LET ing == FindIngredient(ingredients, id) IN
        (handleConsume(id, q, r, TRUE) /\ ing # Null /\ ing.status = "consumed")
        => UNCHANGED <<ingredients, consumptions, dailyStatuses>>
      ]_vars

\* C3: in every reachable state each ingredient has status consumed if and
\* only if its currentQuantity is 0.
C3_ConsumedIffZero ==
    \A k \in 1..Len(ingredients) :
        (ingredients[k].status = "consumed") <=> (ingredients[k].currentQuantity = 0)

\* C4: a create call with shelfLifeValue <= 0 or initialQuantity <= 0 adds no
\* ingredient: the collection after the call equals the collection before it.
C4_CreateValidates ==
    [][\A name \in NameInputs, f \in FormInputs :
        (submit(name, f[1], f[2], TRUE) /\ (f[1] <= 0 \/ f[2] <= 0))
        => ingredients' = ingredients
      ]_vars

\* C5: a consume call with quantity > 0 never increases the currentQuantity of
\* the ingredient it names, and leaves it non-negative.
C5_QuantityMonotonic ==
    [][\A id \in IdInputs, q \in ConsumeQtyInputs, r \in ReasonInputs :
        (handleConsume(id, q, r, TRUE) /\ q > 0)
        => \A k \in 1..Len(ingredients) :
              ingredients[k].id = id
              => /\ ingredients'[k].currentQuantity <= ingredients[k].currentQuantity
                 /\ ingredients'[k].currentQuantity >= 0
      ]_vars

\* C6: the daily status collection holds at most one record per calendar
\* date, also when calls are issued before the view has re-rendered.
C6_OneStatusPerDate ==
    \A i, j \in 1..Len(dailyStatuses) :
        dailyStatuses[i].date = dailyStatuses[j].date => i = j

\* C7: after a setStatus call with status s, a DailyStatus record for the
\* current date exists and its status is s.
C7_SetStatusUpserts ==
    [][\A s \in StatusInputs :
        handleDailyStatusUpdate(s, TRUE)
        => \E k \in 1..Len(dailyStatuses') :
              /\ dailyStatuses'[k].date = today
              /\ dailyStatuses'[k].status = s
      ]_vars

\* C8: after a consume call that succeeds on a day for which no DailyStatus
\* exists, a DailyStatus with status cooked exists for that day.
C8_ConsumeMarksCooked ==
    [][\A id \in IdInputs, q \in ConsumeQtyInputs, r \in ReasonInputs :
        LET ing == FindIngredient(ingredients, id) IN
        (/\ handleConsume(id, q, r, TRUE)
         /\ ing # Null /\ ing.status = "active"
         /\ FindStatus(dailyStatuses, today) = Null)
        => \E k \in 1..Len(dailyStatuses') :
              /\ dailyStatuses'[k].date = today
              /\ dailyStatuses'[k].status = "cooked"
      ]_vars

\* C9: when a DailyStatus for the current day exists, a consume call leaves
\* the records of that day as they are: none is changed and none is added.
\* (A consume call that finds nothing leaves every variable as it is, so
\* only the steps that end with lastOp = "consume" need the comparison.)
C9_ExplicitStatusWins ==
    [][lastOp' = "consume" =>
       \A id \in IdInputs, q \in ConsumeQtyInputs, r \in ReasonInputs :
        (handleConsume(id, q, r, TRUE) /\ FindStatus(dailyStatuses, today) # Null)
        => OnDate(dailyStatuses', today) = OnDate(dailyStatuses, today)
      ]_vars

\* C9 witness: a consume call has just acted on a day whose status the user
\* had set to not_at_home.
C9_Witness ==
    /\ lastOp = "consume"
    /\ FindStatus(dailyStatuses, today) # Null
    /\ FindStatus(dailyStatuses, today).status = "not_at_home"

\* C10: the ledger is append-only: no step changes or removes a record, a
\* consume call that finds its ingredient adds exactly one record, a consume
\* call with an unknown id adds none, and no other call adds any.
C10_LedgerAppendOnly ==
    [][/\ LedgerKept
       /\ lastOp' = "consume" =>
            \A id \in IdInputs, q \in ConsumeQtyInputs, r \in ReasonInputs :
              handleConsume(id, q, r, TRUE)
              => Len(consumptions') =
                    IF FindIngredient(ingredients, id) # Null
                    THEN Len(consumptions) + 1
                    ELSE Len(consumptions)
       /\ lastOp' # "consume" => consumptions' = consumptions
      ]_vars

\* C10 witness: a consume call has just appended to a ledger that already
\* held a record.
C10_Witness ==
    /\ lastOp = "consume"
    /\ Len(consumptions) >= 2

\* C11: on every screen the two counters count disjoint sets of active
\* ingredients (together no more than the total), and expiringSoon + expired
\* is the number of items of the at-risk list drawn by the same render.
C11_CountersMatchRiskList ==
    /\ stats.expiringSoon + stats.expired <= stats.total
    /\ stats.expiringSoon + stats.expired = Len(riskList)

\* C12: the counters a render shows are the ones computed from the current
\* inventory and the current time: after every call that renders the view,
\* stats is ComputeStats of the inventory at the present clock.
C12_SummaryIsCurrent ==
    lastOp # "tick" => stats = ComputeStats(ingredients, Now(today))

C14_NameSetsCategory ==
    [][\A n \in DraftNames :
        (onNameChange(n) /\ Len(n) > 0 /\ ~draft.hasManuallyChangedCategory)
        => draft'.category = Classify(n)]_vars

\* C15: an answer that arrives when the modal instance that asked for it is
\* gone (submitted, closed or replaced) changes no ingredient, no consumption
\* record and no daily status, and the form that is open then holds nothing
\* of the answer: it is what the render after setIsProcessing(false) leaves.
C15_LateResultDiscarded ==
    [][lastOp' = "late" =>
        \A info \in InfoInputs :
            (onInfo(info) /\ ~ocr.alive)
            => /\ ingredients' = ingredients
               /\ consumptions' = consumptions
               /\ dailyStatuses' = dailyStatuses
               /\ draft' = AppRender(isAddModalOpen, draft)]_vars

\* an answer came late, after its draft was submitted, into a later draft
\* that holds a typed name
C15_Witness ==
    /\ lastOp = "late"
    /\ ~remounts
    /\ Len(ingredients) = 1
    /\ draft # Null
    /\ draft.name = <<"shui">>

C18_ExpiryOnCalendar ==
    timeCase # Null /\ timeCase.expiryDate # <<>> =>
        LET d == timeCase.date
            v == timeCase.value
            e == timeCase.expiryDate[1]
            from == Civil(d)
            to == Civil(e \div 24)
            months == from.year * 12 + from.month + v
        IN  /\ timeCase.unit = "day" => e = (d + v) * 24
            /\ (/\ timeCase.unit = "month"
                 /\ from.date <= DaysInMonth(months \div 12, months % 12))
               => /\ e % 24 = 0
                  /\ to.date = from.date
                  /\ to.year * 12 + to.month = months

\* C19: for every ingredient created with a positive quantity, of which no
\* record takes more than it ever held, the consumedQuantity of the records
\* that reference it add up to initialQuantity - currentQuantity.
C19_QuantityConserved ==
    \A k \in 1..Len(ingredients) :
        (/\ ingredients[k].initialQuantity > 0
         /\ \A j \in 1..Len(consumptions) :
               consumptions[j].ingredientId = ingredients[k].id
               => consumptions[j].consumedQuantity <= ingredients[k].initialQuantity)
        => SumConsumed(consumptions, ingredients[k].id)
             = ingredients[k].initialQuantity - ingredients[k].currentQuantity

\* C20: when no extraction is running (none was started, or the last one has
\* ended with an answer, with nothing, or with an error) the processing flag
\* is clear.
C20_ProcessingCleared ==
    ocr = Null => ~isProcessing

====
